---------------------------- MODULE Spec2Model ----------------------------
(***************************************************************************)
(* The knowledge graph (automation/graph/knowledge_graph.py) and the       *)
(* GitHub event handler (automation/graph/event_handler.py).               *)
(*                                                                         *)
(* A Python str is a sequence of one-character strings, so that string     *)
(* building (f"{node_type}:{node_id}"), str.lower, the `in` substring     *)
(* test, str.split, str.startswith and the two regular expressions are     *)
(* computed on characters.  A Python dict (a property bag, an event        *)
(* payload) is a function from its keys to its values.  The two SQLite     *)
(* tables are sets of rows; the order in which a cursor without ORDER BY   *)
(* yields rows is fixed by no statement of the code and is a choice.       *)
(***************************************************************************)
EXTENDS Integers, Sequences, FiniteSets, TLC

VARIABLES
    nodes,   \* table nodes: rows [id, type, properties, created_at, updated_at]
    edges,   \* table edges: rows [from_id, to_id, relationship, properties, created_at]
    now,     \* the value CURRENT_TIMESTAMP yields (whole seconds)
    last,    \* the last call: its name, arguments, outcome and returned value
    prev,    \* the two tables as they were when the last call started
    bfs,     \* the locals of a find_dependents call that runs loop turn by loop turn
    writers  \* the locals of the update_node calls that processes run step by step

vars == <<nodes, edges, now, last, prev, bfs, writers>>

-----------------------------------------------------------------------------
(* Strings                                                                 *)

S_Issue == <<"I", "s", "s", "u", "e">>
S_PullRequest == <<"P", "u", "l", "l", "R", "e", "q", "u", "e", "s", "t">>
S_Document == <<"D", "o", "c", "u", "m", "e", "n", "t">>
S_Concept == <<"C", "o", "n", "c", "e", "p", "t">>
S_Skill == <<"S", "k", "i", "l", "l">>
S_open == <<"o", "p", "e", "n">>
S_closed == <<"c", "l", "o", "s", "e", "d">>
S_merged == <<"m", "e", "r", "g", "e", "d">>
S_ABOUT == <<"A", "B", "O", "U", "T">>
S_FIXED_BY == <<"F", "I", "X", "E", "D", "_", "B", "Y">>
S_MODIFIES == <<"M", "O", "D", "I", "F", "I", "E", "S">>
S_INCLUDES == <<"I", "N", "C", "L", "U", "D", "E", "S">>
S_GENERATES == <<"G", "E", "N", "E", "R", "A", "T", "E", "S">>
S_docs_a_md == <<"d", "o", "c", "s", "/", "a", ".", "m", "d">>
S_SkillColon == <<"S", "k", "i", "l", "l", ":">>

UpperChars == <<"A", "B", "C", "D", "E", "F", "G", "H", "I", "J", "K", "L", "M",
                "N", "O", "P", "Q", "R", "S", "T", "U", "V", "W", "X", "Y", "Z">>
LowerChars == <<"a", "b", "c", "d", "e", "f", "g", "h", "i", "j", "k", "l", "m",
                "n", "o", "p", "q", "r", "s", "t", "u", "v", "w", "x", "y", "z">>
DigitChars == <<"0", "1", "2", "3", "4", "5", "6", "7", "8", "9">>

Range(s) == {s[i] : i \in DOMAIN s}

\* the lower-case letter of every upper-case letter
LowerOf == [c \in Range(UpperChars) |->
              LowerChars[CHOOSE i \in DOMAIN UpperChars : UpperChars[i] = c]]

\* str.lower() on one character
LowerChar(c) == IF c \in DOMAIN LowerOf THEN LowerOf[c] ELSE c

\* str.lower()
Lower(s) == [i \in DOMAIN s |-> LowerChar(s[i])]

\* s[i:i+len(p)] == p, for a 1-based position i
MatchesAt(s, i, p) ==
    /\ i >= 1
    /\ i + Len(p) - 1 <= Len(s)
    /\ \A k \in 1..Len(p) : s[i + k - 1] = p[k]

\* sub in s
Contains(sub, s) == \E i \in 1..(Len(s) + 1) : MatchesAt(s, i, sub)

\* s.startswith(p)
StartsWith(s, p) == MatchesAt(s, 1, p)

\* s.split(sep) for a one-character separator: the parts between separators
RECURSIVE SplitFrom(_, _, _, _)
SplitFrom(s, sep, i, cur) ==
    IF i > Len(s) THEN <<cur>>
    ELSE IF s[i] = sep THEN <<cur>> \o SplitFrom(s, sep, i + 1, <<>>)
    ELSE SplitFrom(s, sep, i + 1, Append(cur, s[i]))

Split(s, sep) == SplitFrom(s, sep, 1, <<>>)

\* str(n) for an int n >= 0
RECURSIVE IntToStr(_)
IntToStr(n) ==
    IF n < 10 THEN <<DigitChars[n + 1]>>
    ELSE IntToStr(n \div 10) \o <<DigitChars[(n % 10) + 1]>>

\* the length of the longest run of characters of class cls in s from position i
RECURSIVE RunLen(_, _, _)
RunLen(s, i, cls) ==
    IF i <= Len(s) /\ s[i] \in cls THEN 1 + RunLen(s, i + 1, cls) ELSE 0

\* a set as a sequence, each element once
RECURSIVE SetToSeq(_)
SetToSeq(S) ==
    IF S = {} THEN <<>>
    ELSE LET x == CHOOSE y \in S : TRUE IN <<x>> \o SetToSeq(S \ {x})

\* every order in which the entries of sequence s can be listed
Orders(s) ==
    {[i \in DOMAIN s |-> s[p[i]]] : p \in Permutations(DOMAIN s)}

-----------------------------------------------------------------------------
(* JSON: the properties column holds the serialized document               *)

\* json.dumps of a dict: the members of the JSON object
json_dumps(d) == {<<k, d[k]>> : k \in DOMAIN d}

\* json.loads of a serialized object: a dict again
json_loads(doc) ==
    [k \in {m[1] : m \in doc} |-> (CHOOSE m \in doc : m[1] = k)[2]]

\* the new members alone, the old ones dropped
DictReplace(d, u) == u

\* dict.update: d with the members of u laid over it
DictUpdate(d, u) ==
    [k \in (DOMAIN d) \cup (DOMAIN u) |-> IF k \in DOMAIN u THEN u[k] ELSE d[k]]

EmptyDict == [k \in {} |-> 0]

\* d.get(k, default)
DictGet(d, k, default) == IF k \in DOMAIN d THEN d[k] ELSE default

-----------------------------------------------------------------------------
(* The graph store: KnowledgeGraph                                         *)

\* the value of an absent result (Python None)
None == [none |-> TRUE]

\* a store with both tables empty, as _init_schema leaves a new database
EmptyGraph == [nodes |-> {}, edges |-> {}]

\* INSERT OR IGNORE in place of INSERT OR REPLACE: the old row is kept
InsertOrIgnoreNode(tbl, row) ==
    IF \E r \in tbl : r.id = row.id THEN tbl ELSE tbl \cup {row}

\* INSERT OR REPLACE INTO nodes: id is the PRIMARY KEY, so a row with the
\* same id is deleted and the new row inserted
InsertOrReplaceNode(tbl, row) == {r \in tbl : r.id # row.id} \cup {row}

\* a plain INSERT with no UNIQUE constraint: the row is always added
InsertEdgeAlways(tbl, row) == tbl \cup {row}

\* INSERT OR IGNORE INTO edges: UNIQUE(from_id, to_id, relationship), so the
\* row is dropped when a row with the same triple exists
InsertOrIgnoreEdge(tbl, row) ==
    IF \E r \in tbl : /\ r.from_id = row.from_id
                      /\ r.to_id = row.to_id
                      /\ r.relationship = row.relationship
    THEN tbl
    ELSE tbl \cup {row}

\* a DELETE in place of the UPDATE: the row is removed
DeleteNodeRow(tbl, node_id, doc, ts) == {r \in tbl : r.id # node_id}

\* UPDATE nodes SET properties = ?, updated_at = CURRENT_TIMESTAMP WHERE id = ?
UpdateNodeRow(tbl, node_id, doc, ts) ==
    {IF r.id = node_id
     THEN [r EXCEPT !.properties = doc, !.updated_at = ts]
     ELSE r : r \in tbl}

\* f"{node_type}:{node_id}"
full_id(node_type, node_id) == node_type \o <<":">> \o node_id

\* add_node as an upsert that updates the row in place: an existing row
\* keeps its created_at
add_node_upserting(g, node_type, node_id, properties, ts) ==
    LET old == {r \in g.nodes : r.id = full_id(node_type, node_id)}
        row == [id |-> full_id(node_type, node_id),
                type |-> node_type,
                properties |-> json_dumps(properties),
                created_at |-> IF old = {} THEN ts ELSE (CHOOSE r \in old : TRUE).created_at,
                updated_at |-> ts]
    IN  [g |-> [g EXCEPT !.nodes = InsertOrReplaceNode(g.nodes, row)],
         ret |-> full_id(node_type, node_id)]

\* add_node(node_type, node_id, **properties): the store afterwards and the
\* id returned.  created_at is not in the column list and takes its default.
add_node(g, node_type, node_id, properties, ts) ==
    LET row == [id |-> full_id(node_type, node_id),
                type |-> node_type,
                properties |-> json_dumps(properties),
                created_at |-> ts,
                updated_at |-> ts]
    IN  [g |-> [g EXCEPT !.nodes = InsertOrReplaceNode(g.nodes, row)],
         ret |-> full_id(node_type, node_id)]

\* get_node(node_id): the row as a dict, or None
get_node(g, node_id) ==
    LET rows == {r \in g.nodes : r.id = node_id}
    IN  IF rows = {} THEN None
        ELSE LET row == CHOOSE r \in rows : TRUE
             IN  [id |-> row.id,
                  type |-> row.type,
                  properties |-> json_loads(row.properties),
                  created_at |-> row.created_at,
                  updated_at |-> row.updated_at]

\* update_node that returns silently when the node is not found
update_node_silent(g, node_id, properties, ts) ==
    LET node == get_node(g, node_id)
    IN  IF node = None
        THEN [g |-> g, outcome |-> "ok"]
        ELSE [g |-> [g EXCEPT !.nodes =
                       UpdateNodeRow(g.nodes, node_id,
                           json_dumps(DictUpdate(node.properties, properties)), ts)],
              outcome |-> "ok"]

\* update_node(node_id, **properties): raises ValueError when the node is
\* not found, otherwise writes the merged properties back
update_node(g, node_id, properties, ts) ==
    LET node == get_node(g, node_id)
    IN  IF node = None
        THEN [g |-> g, outcome |-> "ValueError"]
        ELSE LET current_props == DictUpdate(node.properties, properties)
             IN  [g |-> [g EXCEPT !.nodes =
                          UpdateNodeRow(g.nodes, node_id, json_dumps(current_props), ts)],
                  outcome |-> "ok"]

\* add_edge on a store that enforces the REFERENCES clauses with OR IGNORE:
\* an edge with an end that is not in nodes is dropped
add_edge_enforcing(g, from_id, to_id, relationship, properties, ts) ==
    IF {from_id, to_id} \subseteq {r.id : r \in g.nodes}
    THEN [g EXCEPT !.edges = InsertOrIgnoreEdge(g.edges,
             [from_id |-> from_id, to_id |-> to_id, relationship |-> relationship,
              properties |-> json_dumps(properties), created_at |-> ts])]
    ELSE g

\* add_edge that first creates a node for each end that is not in nodes
add_edge_creating(g, from_id, to_id, relationship, properties, ts) ==
    LET missing == {from_id, to_id} \ {r.id : r \in g.nodes}
        made == {[id |-> m, type |-> <<>>, properties |-> json_dumps(EmptyDict),
                  created_at |-> ts, updated_at |-> ts] : m \in missing}
    IN  [nodes |-> g.nodes \cup made,
         edges |-> InsertOrIgnoreEdge(g.edges,
             [from_id |-> from_id, to_id |-> to_id, relationship |-> relationship,
              properties |-> json_dumps(properties), created_at |-> ts])]

\* add_edge on a table without the unique key: every call appends a row of
\* its own, numbered by the rows already there
add_edge_appending(g, from_id, to_id, relationship, properties, ts) ==
    [g EXCEPT !.edges = InsertEdgeAlways(g.edges,
        [from_id |-> from_id, to_id |-> to_id, relationship |-> relationship,
         properties |-> json_dumps(DictUpdate(properties, [rowid |-> Cardinality(g.edges)])),
         created_at |-> ts])]

\* add_edge(from_id, to_id, relationship, **properties).  No PRAGMA
\* foreign_keys is issued, so the REFERENCES clauses are not enforced.
add_edge(g, from_id, to_id, relationship, properties, ts) ==
    LET row == [from_id |-> from_id,
                to_id |-> to_id,
                relationship |-> relationship,
                properties |-> json_dumps(properties),
                created_at |-> ts]
    IN  [g EXCEPT !.edges = InsertOrIgnoreEdge(g.edges, row)]

\* the rows of the join of find_related's query: a node row n and an edge row
\* e with (e.to_id = n.id OR e.from_id = n.id), e touching node_id, and e of
\* the given relationship when one is given (None and "" both mean none)
RelatedJoin(g, node_id, relationship) ==
    {<<n, e>> \in g.nodes \X g.edges :
        /\ (e.to_id = n.id \/ e.from_id = n.id)
        /\ (e.from_id = node_id \/ e.to_id = node_id)
        /\ (relationship # <<>> => e.relationship = relationship)}

\* find_related(node_id, relationship): one dict per row of the join, here in
\* one fixed order; callers that depend on the order take every order
find_related(g, node_id, relationship) ==
    LET rows == SetToSeq(RelatedJoin(g, node_id, relationship))
    IN  [i \in DOMAIN rows |->
            [id |-> rows[i][1].id,
             type |-> rows[i][1].type,
             properties |-> json_loads(rows[i][1].properties)]]

\* the default of find_dependents' max_depth parameter
DefaultMaxDepth == 3

\* a SELECT that follows the edges in both directions
AnyCursor(g, current_id) ==
    LET rows == SetToSeq({e \in g.edges : e.from_id = current_id \/ e.to_id = current_id})
    IN  [i \in DOMAIN rows |-> IF rows[i].from_id = current_id THEN rows[i].to_id
                                ELSE rows[i].from_id]

\* SELECT to_id FROM edges WHERE from_id = ?: the rows, in one fixed order
OutCursor(g, current_id) ==
    LET rows == SetToSeq({e \in g.edges : e.from_id = current_id})
    IN  [i \in DOMAIN rows |-> rows[i].to_id]

\* the for loop over the cursor: each to_id that is not visited is appended to
\* dependents and to to_visit (visited does not change inside the loop)
RECURSIVE fd_rows(_, _, _, _)
fd_rows(st, cursor, depth, i) ==
    IF i > Len(cursor) THEN st
    ELSE LET dependent_id == cursor[i]
         IN  IF dependent_id \notin st.visited
             THEN fd_rows([st EXCEPT !.dependents = Append(@, dependent_id),
                                     !.to_visit = Append(@, <<dependent_id, depth + 1>>)],
                          cursor, depth, i + 1)
             ELSE fd_rows(st, cursor, depth, i + 1)

\* the skip test with > in place of >=
fd_skips_beyond(st, max_depth) ==
    Head(st.to_visit)[1] \in st.visited \/ Head(st.to_visit)[2] > max_depth

\* the skip test without its visited half
fd_skips_depth_only(st, max_depth) == Head(st.to_visit)[2] >= max_depth

\* whether the turn of the while loop that pops to_visit[0] skips it
fd_skips(st, max_depth) ==
    LET current_id == Head(st.to_visit)[1]
        depth == Head(st.to_visit)[2]
    IN  current_id \in st.visited \/ depth >= max_depth

\* one turn of the while loop of find_dependents; cursor holds the to_id
\* values the SELECT yields for the popped node
fd_turn(st, max_depth, cursor) ==
    LET current_id == Head(st.to_visit)[1]
        depth == Head(st.to_visit)[2]
        popped == [st EXCEPT !.to_visit = Tail(@)]
    IN  IF fd_skips(st, max_depth)
        THEN popped
        ELSE fd_rows([popped EXCEPT !.visited = @ \cup {current_id}], cursor, depth, 1)

\* the locals of find_dependents before the loop
fd_start(node_id) ==
    [visited |-> {}, to_visit |-> <<<<node_id, 0>>>>, dependents |-> <<>>]

RECURSIVE fd_loop(_, _, _)
fd_loop(g, st, max_depth) ==
    IF st.to_visit = <<>> THEN st.dependents
    ELSE fd_loop(g, fd_turn(st, max_depth, OutCursor(g, Head(st.to_visit)[1])), max_depth)

\* find_dependents(node_id, max_depth): the list returned
find_dependents(g, node_id, max_depth) == fd_loop(g, fd_start(node_id), max_depth)

\* the rows in the order ORDER BY created_at DESC gives: later rows first,
\* rows of one second in the order the table scan meets them
RECURSIVE ByCreatedAtDesc(_)
ByCreatedAtDesc(rows) ==
    IF rows = {} THEN <<>>
    ELSE LET latest == {r \in rows : \A x \in rows : r.created_at >= x.created_at}
         IN  SetToSeq(latest) \o ByCreatedAtDesc(rows \ latest)

\* query_by_type without its ORDER BY clause
query_by_type_unordered(g, node_type) ==
    LET rows == SetToSeq({r \in g.nodes : r.type = node_type})
    IN  [i \in DOMAIN rows |->
            [id |-> rows[i].id, type |-> rows[i].type,
             properties |-> json_loads(rows[i].properties),
             created_at |-> rows[i].created_at]]

\* query_by_type(node_type): SELECT * FROM nodes WHERE type = ? ORDER BY
\* created_at DESC, one dict per row
query_by_type(g, node_type) ==
    LET rows == ByCreatedAtDesc({r \in g.nodes : r.type = node_type})
    IN  [i \in DOMAIN rows |->
            [id |-> rows[i].id, type |-> rows[i].type,
             properties |-> json_loads(rows[i].properties),
             created_at |-> rows[i].created_at]]

-----------------------------------------------------------------------------
(* The event handler: GitHubEventHandler                                   *)

\* the keywords dict of extract_concepts_from_text: keyword, concept id
keywords == <<
    <<<<"S", "t", "o", "r", "a", "g", "e", " ", "A", "P", "I">>,
      <<"C", "o", "n", "c", "e", "p", "t", ":", "S", "t", "o", "r", "a", "g", "e", "A", "P", "I">>>>,
    <<<<"J", "o", "b", "s", " ", "A", "P", "I">>,
      <<"C", "o", "n", "c", "e", "p", "t", ":", "J", "o", "b", "s", "A", "P", "I">>>>,
    <<<<"S", "t", "a", "c", "k", " ", "U", "R", "L">>,
      <<"C", "o", "n", "c", "e", "p", "t", ":", "S", "t", "a", "c", "k", "U", "R", "L">>>>,
    <<<<"P", "r", "o", "j", "e", "c", "t", " ", "I", "D">>,
      <<"C", "o", "n", "c", "e", "p", "t", ":", "P", "r", "o", "j", "e", "c", "t", "I", "D">>>>,
    <<<<"T", "o", "k", "e", "n">>,
      <<"C", "o", "n", "c", "e", "p", "t", ":", "A", "u", "t", "h", "e", "n", "t", "i", "c", "a", "t", "i", "o", "n">>>>,
    <<<<"I", "n", "p", "u", "t", " ", "M", "a", "p", "p", "i", "n", "g">>,
      <<"C", "o", "n", "c", "e", "p", "t", ":", "I", "n", "p", "u", "t", "M", "a", "p", "p", "i", "n", "g">>>>,
    <<<<"O", "u", "t", "p", "u", "t", " ", "M", "a", "p", "p", "i", "n", "g">>,
      <<"C", "o", "n", "c", "e", "p", "t", ":", "O", "u", "t", "p", "u", "t", "M", "a", "p", "p", "i", "n", "g">>>>,
    <<<<"C", "u", "s", "t", "o", "m", " ", "P", "y", "t", "h", "o", "n">>,
      <<"C", "o", "n", "c", "e", "p", "t", ":", "C", "u", "s", "t", "o", "m", "P", "y", "t", "h", "o", "n">>>>,
    <<<<"S", "t", "r", "e", "a", "m", "l", "i", "t">>,
      <<"C", "o", "n", "c", "e", "p", "t", ":", "S", "t", "r", "e", "a", "m", "l", "i", "t">>>>,
    <<<<"F", "l", "o", "w">>,
      <<"C", "o", "n", "c", "e", "p", "t", ":", "F", "l", "o", "w", "s">>>>>>

\* keyword.lower() of every keyword of the table
keywords_lower == [i \in DOMAIN keywords |-> Lower(keywords[i][1])]

\* extract_concepts_from_text(text): the concept ids whose keyword, lowered,
\* is a substring of the lowered text
ConceptsIn(text) ==
    LET text_lower == Lower(text)
    IN  {keywords[i][2] : i \in {j \in DOMAIN keywords :
                                   Contains(keywords_lower[j], text_lower)}}

\* \w of the regular expressions (ASCII), and the class [\w/\-]
WordChars == Range(UpperChars) \cup Range(LowerChars) \cup Range(DigitChars) \cup {"_"}
PathChars == WordChars \cup {"/", "-"}
\* \s
SpaceChars == {" ", "\t", "\n", "\r", "\f"}

FileHeads == <<<<"d", "o", "c", "s">>, <<"s", "k", "i", "l", "l", "s">>>>
FileExts == <<<<"m", "d">>, <<"p", "y">>, <<"y", "a", "m", "l">>>>

\* the first alternative of alts that matches s at position i, or 0
FirstAlt(s, i, alts) ==
    LET ok == {a \in DOMAIN alts : MatchesAt(s, i, alts[a])}
    IN  IF ok = {} THEN 0 ELSE CHOOSE a \in ok : \A b \in ok : a <= b

\* the last position of the match of (?:docs|skills)/[\w/\-]+\.(?:md|py|yaml)
\* that starts at position i of s, or 0 when there is none: the class is
\* matched greedily and gives characters back until the rest matches
FileMatchEnd(s, i) ==
    LET h == FirstAlt(s, i, FileHeads)
    IN  IF h = 0 THEN 0
        ELSE LET j == i + Len(FileHeads[h]) + 1
                 m == RunLen(s, j, PathChars)
                 ks == {k \in 1..m : /\ MatchesAt(s, j + k, <<".">>)
                                     /\ FirstAlt(s, j + k + 1, FileExts) # 0}
             IN  IF ~MatchesAt(s, j - 1, <<"/">>) \/ ks = {} THEN 0
                 ELSE LET k == CHOOSE x \in ks : \A y \in ks : y <= x
                      IN  j + k + Len(FileExts[FirstAlt(s, j + k + 1, FileExts)])

\* re.findall(pattern, text) for the file pattern: the matches from left to
\* right, each search starting after the previous match
RECURSIVE FindAllFiles(_, _)
FindAllFiles(s, i) ==
    IF i > Len(s) THEN <<>>
    ELSE LET e == FileMatchEnd(s, i)
         IN  IF e = 0 THEN FindAllFiles(s, i + 1)
             ELSE <<SubSeq(s, i, e)>> \o FindAllFiles(s, e + 1)

\* extract_files_from_text(text)
FilesIn(text) == Range(FindAllFiles(text, 1))

FixWords == <<<<"f", "i", "x", "e", "s">>, <<"c", "l", "o", "s", "e", "s">>, <<"r", "e", "s", "o", "l", "v", "e", "s">>>>

\* the match of (?:fixes|closes|resolves)\s+#(\d+) that starts at position i
\* of s: its last position and its group, or last = 0 when there is none
FixMatch(s, i) ==
    LET w == FirstAlt(s, i, FixWords)
    IN  IF w = 0 THEN [last |-> 0, group |-> <<>>]
        ELSE LET j == i + Len(FixWords[w])
                 sp == RunLen(s, j, SpaceChars)
                 d == RunLen(s, j + sp + 1, Range(DigitChars))
             IN  IF sp = 0 \/ ~MatchesAt(s, j + sp, <<"#">>) \/ d = 0
                 THEN [last |-> 0, group |-> <<>>]
                 ELSE [last |-> j + sp + d,
                       group |-> SubSeq(s, j + sp + 1, j + sp + d)]

\* re.findall(fixes_pattern, text): the groups of the matches, left to right
RECURSIVE FindAllFixes(_, _)
FindAllFixes(s, i) ==
    IF i > Len(s) THEN <<>>
    ELSE LET m == FixMatch(s, i)
         IN  IF m.last = 0 THEN FindAllFixes(s, i + 1)
             ELSE <<m.group>> \o FindAllFixes(s, m.last + 1)


\* the title alone
full_text_title_only(data) == data["title"]

\* f"{data['title']} {data.get('body', '')}"
full_text(data) == data["title"] \o <<" ">> \o DictGet(data, "body", <<>>)

\* issue payloads: "Flow" names a concept and the body a documentation path
IssuePayloads == {
    [title |-> <<"F", "l", "o", "w">>, body |-> S_docs_a_md,
     html_url |-> <<"u">>, created_at |-> <<"t">>] }

\* pull request payloads: the text fixes issue 1 and closes issue 2
PrPayloads == {
    [title |-> <<"F", "i", "x", "e", "s", " ", "#", "1">>,
     body |-> <<"c", "l", "o", "s", "e", "s", " ", " ", "#", "2">>,
     html_url |-> <<"u">>, created_at |-> <<"t">>,
     changed_files |-> << [filename |-> S_docs_a_md] >>] }

\* payloads whose text names no concept, no path and no issue; the first has
\* no body, and a title in capitals names the concept of "Flow"
QuietIssuePayloads == {
    [title |-> <<"b", "u", "g">>, html_url |-> <<"u">>, created_at |-> <<"t">>],
    [title |-> <<"F", "L", "O", "W">>, body |-> <<>>,
     html_url |-> <<"u">>, created_at |-> <<"t">>] }
QuietPrPayloads == {
    [title |-> <<"w", "i", "p">>, html_url |-> <<"u">>, created_at |-> <<"t">>] }

\* payloads that lack a field the handler reads: an issue without title, a
\* pull request without html_url, and the pull request above with a second
\* changed_files entry that has no filename
MalformedIssuePayloads == {
    [body |-> S_docs_a_md, html_url |-> <<"u">>, created_at |-> <<"t">>] }
MalformedPrPayloads == {
    [title |-> <<"F", "i", "x", "e", "s", " ", "#", "1">>, created_at |-> <<"t">>],
    [title |-> <<"F", "i", "x", "e", "s", " ", "#", "1">>,
     body |-> <<"c", "l", "o", "s", "e", "s", " ", " ", "#", "2">>,
     html_url |-> <<"u">>, created_at |-> <<"t">>,
     changed_files |-> << [filename |-> S_docs_a_md], [status |-> <<"m">>] >>] }

\* a pull request whose text names three issues, the third of them an issue
\* no event creates
ManyFixesPrPayloads == {
    [title |-> <<"f", "i", "x", "e", "s", " ", "#", "1">>,
     body |-> <<"f", "i", "x", "e", "s", " ", "#", "2", " ",
                "f", "i", "x", "e", "s", " ", "#", "3">>,
     html_url |-> <<"u">>, created_at |-> <<"t">>] }

\* the texts of the payloads above, and what the three scans give on each,
\* computed once
PayloadTexts ==
    {full_text(d) : d \in {x \in IssuePayloads \cup PrPayloads : "title" \in DOMAIN x}}
ConceptsOfText == [t \in PayloadTexts |-> ConceptsIn(t)]
FilesOfText == [t \in PayloadTexts |-> FilesIn(t)]
FixesOfText == [t \in PayloadTexts |-> FindAllFixes(Lower(t), 1)]

\* extract_concepts_from_text(text)
extract_concepts_from_text(text) ==
    IF text \in PayloadTexts THEN ConceptsOfText[text] ELSE ConceptsIn(text)

\* extract_files_from_text(text)
extract_files_from_text(text) ==
    IF text \in PayloadTexts THEN FilesOfText[text] ELSE FilesIn(text)

\* re.findall(fixes_pattern, full_text.lower())
fixes_matches(text) ==
    IF text \in PayloadTexts THEN FixesOfText[text] ELSE FindAllFixes(Lower(text), 1)

\* the for loop over concepts: a Concept node and an ABOUT edge for each
RECURSIVE link_concepts(_, _, _, _, _)
link_concepts(g, issue_id, concepts, i, ts) ==
    IF i > Len(concepts) THEN g
    ELSE LET concept_id == concepts[i]
             concept_name == Split(concept_id, ":")[2]
             g1 == add_node(g, S_Concept, concept_name,
                            [name |-> concept_name], ts).g
             g2 == add_edge(g1, issue_id, concept_id, S_ABOUT, EmptyDict, ts)
         IN  link_concepts(g2, issue_id, concepts, i + 1, ts)

\* the for loop over files that creates the Document node only when there
\* is none
RECURSIVE link_files_keeping(_, _, _, _, _)
link_files_keeping(g, issue_id, files, i, ts) ==
    IF i > Len(files) THEN g
    ELSE LET file_path == files[i]
             doc_id == S_Document \o <<":">> \o file_path
             g1 == IF get_node(g, doc_id) = None
                   THEN add_node(g, S_Document, file_path, [path |-> file_path], ts).g
                   ELSE g
             g2 == add_edge(g1, issue_id, doc_id, S_ABOUT, EmptyDict, ts)
         IN  link_files_keeping(g2, issue_id, files, i + 1, ts)

\* the for loop over files: a Document node and an ABOUT edge for each
RECURSIVE link_files(_, _, _, _, _)
link_files(g, issue_id, files, i, ts) ==
    IF i > Len(files) THEN g
    ELSE LET file_path == files[i]
             g1 == add_node(g, S_Document, file_path, [path |-> file_path], ts).g
             doc_id == S_Document \o <<":">> \o file_path
             g2 == add_edge(g1, issue_id, doc_id, S_ABOUT, EmptyDict, ts)
         IN  link_files(g2, issue_id, files, i + 1, ts)

\* handle_issue_created(issue_number, issue_data).  A field read with [] that
\* the payload lacks raises KeyError; all of them are read before add_node
\* is called.
handle_issue_created(g, issue_number, issue_data, ts) ==
    LET labels == DictGet(issue_data, "labels", <<>>)
    IN  IF \/ ~({"title", "html_url", "created_at"} \subseteq DOMAIN issue_data)
           \/ \E i \in DOMAIN labels : "name" \notin DOMAIN labels[i]
        THEN [g |-> g, outcome |-> "KeyError"]
        ELSE LET created == add_node(g, S_Issue, IntToStr(issue_number),
                                [number |-> issue_number,
                                 title |-> issue_data["title"],
                                 body |-> DictGet(issue_data, "body", <<>>),
                                 status |-> S_open,
                                 labels |-> [i \in DOMAIN labels |-> labels[i]["name"]],
                                 url |-> issue_data["html_url"],
                                 created_at |-> issue_data["created_at"]], ts)
                 issue_id == created.ret
                 concepts == extract_concepts_from_text(full_text(issue_data))
                 g1 == link_concepts(created.g, issue_id, SetToSeq(concepts), 1, ts)
                 files == extract_files_from_text(full_text(issue_data))
                 g2 == link_files(g1, issue_id, SetToSeq(files), 1, ts)
             IN  [g |-> g2, outcome |-> "ok"]

\* handle_issue_closed(issue_number)
handle_issue_closed(g, issue_number, ts) ==
    LET issue_id == S_Issue \o <<":">> \o IntToStr(issue_number)
    IN  update_node(g, issue_id, [status |-> S_closed], ts)

\* a loop that also creates the Issue node of each match
RECURSIVE link_fixes_creating(_, _, _, _, _)
link_fixes_creating(g, pr_id, matches, i, ts) ==
    IF i > Len(matches) THEN g
    ELSE LET issue == add_node(g, S_Issue, matches[i], [status |-> S_open], ts)
         IN  link_fixes_creating(add_edge(issue.g, issue.ret, pr_id, S_FIXED_BY, EmptyDict, ts),
                                 pr_id, matches, i + 1, ts)

\* the for loop over the fixes matches: a FIXED_BY edge from each issue
RECURSIVE link_fixes(_, _, _, _, _)
link_fixes(g, pr_id, matches, i, ts) ==
    IF i > Len(matches) THEN g
    ELSE LET issue_id == S_Issue \o <<":">> \o matches[i]
         IN  link_fixes(add_edge(g, issue_id, pr_id, S_FIXED_BY, EmptyDict, ts),
                        pr_id, matches, i + 1, ts)

\* the for loop over pr_data["changed_files"]: a Document node and a MODIFIES
\* edge for each; an entry without "filename" raises KeyError there, after
\* the writes made so far
RECURSIVE link_changed_files(_, _, _, _, _)
link_changed_files(g, pr_id, changed_files, i, ts) ==
    IF i > Len(changed_files) THEN [g |-> g, outcome |-> "ok"]
    ELSE IF "filename" \notin DOMAIN changed_files[i]
    THEN [g |-> g, outcome |-> "KeyError"]
    ELSE LET file_path == changed_files[i]["filename"]
             g1 == add_node(g, S_Document, file_path, [path |-> file_path], ts).g
             doc_id == S_Document \o <<":">> \o file_path
             g2 == add_edge(g1, pr_id, doc_id, S_MODIFIES, EmptyDict, ts)
         IN  link_changed_files(g2, pr_id, changed_files, i + 1, ts)

\* handle_pr_created(pr_number, pr_data)
handle_pr_created(g, pr_number, pr_data, ts) ==
    IF ~({"title", "html_url", "created_at"} \subseteq DOMAIN pr_data)
    THEN [g |-> g, outcome |-> "KeyError"]
    ELSE LET created == add_node(g, S_PullRequest, IntToStr(pr_number),
                            [number |-> pr_number,
                             title |-> pr_data["title"],
                             body |-> DictGet(pr_data, "body", <<>>),
                             status |-> S_open,
                             url |-> pr_data["html_url"],
                             created_at |-> pr_data["created_at"],
                             additions |-> DictGet(pr_data, "additions", 0),
                             deletions |-> DictGet(pr_data, "deletions", 0)], ts)
             pr_id == created.ret
             matches == fixes_matches(full_text(pr_data))
             g1 == link_fixes(created.g, pr_id, matches, 1, ts)
         IN  IF "changed_files" \in DOMAIN pr_data
             THEN link_changed_files(g1, pr_id, pr_data["changed_files"], 1, ts)
             ELSE [g |-> g1, outcome |-> "ok"]

\* the for loop over related: every Issue among them is merge-updated to
\* closed, and then its "number" property is read for the trace, which
\* raises KeyError when the node has none
RECURSIVE close_related(_, _, _, _)
close_related(g, related, i, ts) ==
    IF i > Len(related) THEN [g |-> g, outcome |-> "ok"]
    ELSE LET node == related[i]
         IN  IF node.type = S_Issue
             THEN LET upd == update_node(g, node.id, [status |-> S_closed], ts)
                  IN  IF upd.outcome # "ok" THEN upd
                      ELSE IF "number" \notin DOMAIN node.properties
                      THEN [g |-> upd.g, outcome |-> "KeyError"]
                      ELSE close_related(upd.g, related, i + 1, ts)
             ELSE close_related(g, related, i + 1, ts)

\* the ids of dependents that start with "Skill:"
SkillIds(dependents) == {dep_id \in Range(dependents) : StartsWith(dep_id, S_SkillColon)}

\* affected_skills of handle_pr_merged: for every node find_related gives
\* for MODIFIES, the Skill ids among its find_dependents
affected_skills(g, pr_id) ==
    LET modified_docs == find_related(g, pr_id, S_MODIFIES)
    IN  UNION {SkillIds(find_dependents(g, modified_docs[i].id, DefaultMaxDepth)) :
                 i \in DOMAIN modified_docs}

\* handle_pr_merged that also marks every affected skill as closed
pr_merged_with_marking(g, pr_number, ts, related) ==
    LET pr_id == S_PullRequest \o <<":">> \o IntToStr(pr_number)
        closed == close_related(g, related, 1, ts)
        skills == affected_skills(closed.g, pr_id)
        marked == {IF r.id \in skills
                   THEN [r EXCEPT !.properties =
                           json_dumps(DictUpdate(json_loads(@), [status |-> S_closed]))]
                   ELSE r : r \in closed.g.nodes}
    IN  IF closed.outcome # "ok"
        THEN [g |-> closed.g, outcome |-> closed.outcome, ret |-> {}]
        ELSE [g |-> [closed.g EXCEPT !.nodes = marked], outcome |-> "ok", ret |-> skills]

\* handle_pr_merged(pr_number), with related the list find_related yields for
\* FIXED_BY after the PR was updated
pr_merged_with(g, pr_number, ts, related) ==
    LET pr_id == S_PullRequest \o <<":">> \o IntToStr(pr_number)
        closed == close_related(g, related, 1, ts)
    IN  IF closed.outcome # "ok"
        THEN [g |-> closed.g, outcome |-> closed.outcome, ret |-> {}]
        ELSE [g |-> closed.g, outcome |-> "ok", ret |-> affected_skills(closed.g, pr_id)]

\* handle_pr_merged that goes on to the related issues when the update of
\* the pull request raised
handle_pr_merged_unchecked(g, pr_number, ts) ==
    LET pr_id == S_PullRequest \o <<":">> \o IntToStr(pr_number)
        upd == update_node(g, pr_id, [status |-> S_merged], ts)
    IN  {[r EXCEPT !.outcome = upd.outcome] :
            r \in {pr_merged_with(upd.g, pr_number, ts, related) :
                      related \in Orders(find_related(upd.g, pr_id, S_FIXED_BY))}}

\* handle_pr_merged(pr_number): every result the call can have, one for each
\* order in which find_related can list the related nodes
handle_pr_merged(g, pr_number, ts) ==
    LET pr_id == S_PullRequest \o <<":">> \o IntToStr(pr_number)
        upd == update_node(g, pr_id, [status |-> S_merged], ts)
    IN  IF upd.outcome # "ok"
        THEN {[g |-> g, outcome |-> upd.outcome, ret |-> {}]}
        ELSE {pr_merged_with(upd.g, pr_number, ts, related) :
                related \in Orders(find_related(upd.g, pr_id, S_FIXED_BY))}

-----------------------------------------------------------------------------
(* Inputs of the calls                                                     *)

\* issue and pull request numbers of the events
IssueNumbers == {1, 2}
PrNumbers == {7}

Id_Issue1 == full_id(S_Issue, <<"1">>)
Id_Issue2 == full_id(S_Issue, <<"2">>)
Id_Pr7 == full_id(S_PullRequest, <<"7">>)
Id_Doc == full_id(S_Document, S_docs_a_md)
Id_Skill == full_id(S_Skill, <<"s">>)
Id_Flows == full_id(S_Concept, <<"F", "l", "o", "w", "s">>)

\* direct add_node calls of the ingestion collaborators: type, id, properties
AddNodeInputs == {
    <<S_Issue, <<"1">>, [title |-> <<"B">>]>>,
    <<S_Skill, <<"s">>, [name |-> <<"s">>]>> }

\* direct update_node calls: id, properties
UpdateNodeInputs == {
    <<Id_Issue1, [title |-> <<"C">>, owner |-> <<"x">>]>> }

\* direct add_edge calls: from_id, to_id, relationship, properties
AddEdgeInputs == {
    <<Id_Doc, Id_Skill, S_INCLUDES, EmptyDict>>,
    <<Id_Doc, Id_Skill, S_INCLUDES, [weight |-> 1]>>,
    <<Id_Pr7, Id_Skill, S_GENERATES, EmptyDict>>,
    <<Id_Issue1, Id_Pr7, S_FIXED_BY, EmptyDict>> }

-----------------------------------------------------------------------------
(* The calls as steps                                                      *)

\* the store the connection sees
G == [nodes |-> nodes, edges |-> edges]

\* no find_dependents call is running loop turn by loop turn
BfsIdle == [pc |-> "idle"]

\* no process is inside an update_node call
UpdIdle == <<>>

\* the arguments or the returned value v of a call of op, kept under the
\* name of the call
Of(op, v) == [o \in {op} |-> v]

\* a call that ran to its end (returned or raised) with store g afterwards;
\* a call that raised returned nothing
Called(op, args, g, outcome, ret) ==
    /\ nodes' = g.nodes
    /\ edges' = g.edges
    /\ last' = [op |-> op, args |-> Of(op, args), outcome |-> outcome,
                ret |-> IF outcome = "ok" THEN Of(op, ret) ELSE None]
    /\ prev' = G
    /\ UNCHANGED <<now, bfs, writers>>

AddNode(node_type, node_id, properties) ==
    LET r == add_node(G, node_type, node_id, properties, now)
    IN  Called("add_node", <<node_type, node_id, properties>>, r.g, "ok", r.ret)

UpdateNode(node_id, properties) ==
    LET r == update_node(G, node_id, properties, now)
    IN  Called("update_node", <<node_id, properties>>, r.g, r.outcome, None)

AddEdge(from_id, to_id, relationship, properties) ==
    LET g == add_edge(G, from_id, to_id, relationship, properties, now)
    IN  Called("add_edge", <<from_id, to_id, relationship, properties>>, g, "ok", None)

IssueCreated(issue_number, issue_data) ==
    LET r == handle_issue_created(G, issue_number, issue_data, now)
    IN  Called("handle_issue_created", <<issue_number, issue_data>>, r.g, r.outcome, None)

IssueClosed(issue_number) ==
    LET r == handle_issue_closed(G, issue_number, now)
    IN  Called("handle_issue_closed", <<issue_number>>, r.g, r.outcome, None)

PrCreated(pr_number, pr_data) ==
    LET r == handle_pr_created(G, pr_number, pr_data, now)
    IN  Called("handle_pr_created", <<pr_number, pr_data>>, r.g, r.outcome, None)

PrMerged(pr_number) ==
    \E r \in handle_pr_merged(G, pr_number, now) :
        Called("handle_pr_merged", <<pr_number>>, r.g, r.outcome, r.ret)

Init ==
    /\ nodes = {}
    /\ edges = {}
    /\ now = 0
    /\ last = [op |-> "init", args |-> Of("init", <<>>), outcome |-> "ok",
               ret |-> Of("init", None)]
    /\ prev = EmptyGraph
    /\ bfs = BfsIdle
    /\ writers = UpdIdle

Next ==
    \/ \E a \in AddNodeInputs : AddNode(a[1], a[2], a[3])
    \/ \E a \in UpdateNodeInputs : UpdateNode(a[1], a[2])
    \/ \E a \in AddEdgeInputs : AddEdge(a[1], a[2], a[3], a[4])
    \/ \E n \in IssueNumbers, d \in IssuePayloads : IssueCreated(n, d)
    \/ \E n \in IssueNumbers : IssueClosed(n)
    \/ \E n \in PrNumbers, d \in PrPayloads : PrCreated(n, d)
    \/ \E n \in PrNumbers : PrMerged(n)

Spec == Init /\ [][Next]_vars

\* the event handler alone: every call is one of its four handlers
CorrelatorNext ==
    \/ \E n \in IssueNumbers,
          d \in IssuePayloads \cup QuietIssuePayloads \cup MalformedIssuePayloads :
          IssueCreated(n, d)
    \/ \E n \in IssueNumbers : IssueClosed(n)
    \/ \E n \in PrNumbers,
          d \in PrPayloads \cup QuietPrPayloads \cup MalformedPrPayloads :
          PrCreated(n, d)
    \/ \E n \in PrNumbers : PrMerged(n)

CorrelatorSpec == Init /\ [][CorrelatorNext]_vars

\* the store alone, called by any client: add_node takes any string as type
S_Widget == <<"W", "i", "d", "g", "e", "t">>
OtherTypeInputs == { <<S_Widget, <<"w">>, [name |-> <<"w">>]>> }

StoreNext ==
    \/ \E a \in AddNodeInputs \cup OtherTypeInputs : AddNode(a[1], a[2], a[3])
    \/ \E a \in UpdateNodeInputs : UpdateNode(a[1], a[2])
    \/ \E a \in AddEdgeInputs : AddEdge(a[1], a[2], a[3], a[4])

StoreSpec == Init /\ [][StoreNext]_vars

\* the events of the issues and of one pull request, each delivered once and
\* the creations in any order; the merge comes after the creations
IssueArrives(issue_number, issue_data) ==
    /\ get_node(G, full_id(S_Issue, IntToStr(issue_number))) = None
    /\ \A r \in nodes : r.type = S_PullRequest =>
          DictGet(json_loads(r.properties), "status", S_open) = S_open
    /\ IssueCreated(issue_number, issue_data)

PrArrives(pr_number, pr_data) ==
    /\ get_node(G, full_id(S_PullRequest, IntToStr(pr_number))) = None
    /\ PrCreated(pr_number, pr_data)

MergeArrives(pr_number) ==
    /\ \A n \in IssueNumbers : get_node(G, full_id(S_Issue, IntToStr(n))) # None
    /\ LET pr == get_node(G, full_id(S_PullRequest, IntToStr(pr_number)))
       IN  pr # None /\ pr.properties["status"] = S_open
    /\ PrMerged(pr_number)

ArrivalNext ==
    \/ \E n \in IssueNumbers, d \in IssuePayloads \cup QuietIssuePayloads :
          IssueArrives(n, d)
    \/ \E n \in PrNumbers, d \in PrPayloads \cup QuietPrPayloads : PrArrives(n, d)
    \/ \E n \in PrNumbers : MergeArrives(n)

ArrivalSpec == Init /\ [][ArrivalNext]_vars

-----------------------------------------------------------------------------
(* update_node run by two processes on one database file                   *)

\* the processes, each with its own connection
Procs == {"p1", "p2"}

\* the stores the processes start on: issue 1 as handle_issue_created left it
ConcurrentStores ==
    {handle_issue_created(EmptyGraph, 1, d, 0).g : d \in IssuePayloads \cup QuietIssuePayloads}

\* the update_node calls a process may make: node_id, properties
ConcurrentCalls ==
    {<<id, p>> : id \in {Id_Issue1, Id_Issue2},
                 p \in {[status |-> S_closed], [labels |-> <<<<"x">>>>], [title |-> <<"C">>]}}

ConcurrentInit ==
    /\ \E g \in ConcurrentStores : nodes = g.nodes /\ edges = g.edges
    /\ now = 0
    /\ last = [op |-> "init", args |-> Of("init", <<>>), outcome |-> "ok",
               ret |-> Of("init", None)]
    /\ prev = [nodes |-> nodes, edges |-> edges]
    /\ bfs = BfsIdle
    /\ writers \in [Procs -> {[pc |-> "get_node", node_id |-> c[1], properties |-> c[2],
                           current_props |-> EmptyDict] : c \in ConcurrentCalls}]

\* process p runs update_node up to its UPDATE: get_node reads the row in a
\* statement of its own, the ValueError is raised when there is none, and
\* the supplied properties are laid over the properties read
UpdGetNode(p) ==
    /\ writers[p].pc = "get_node"
    /\ LET node == get_node(G, writers[p].node_id)
       IN  IF node = None
           THEN /\ writers' = [writers EXCEPT ![p].pc = "raised"]
                /\ last' = [op |-> "update_node",
                            args |-> Of("update_node", <<writers[p].node_id, writers[p].properties>>),
                            outcome |-> "ValueError", ret |-> None]
                /\ prev' = G
           ELSE /\ writers' = [writers EXCEPT ![p].pc = "UPDATE",
                                      ![p].current_props =
                                          DictUpdate(node.properties, writers[p].properties)]
                /\ UNCHANGED <<last, prev>>
    /\ UNCHANGED <<nodes, edges, now, bfs>>

\* process p runs the UPDATE and the commit of update_node, and returns
UpdWrite(p) ==
    /\ writers[p].pc = "UPDATE"
    /\ nodes' = UpdateNodeRow(nodes, writers[p].node_id, json_dumps(writers[p].current_props), now)
    /\ writers' = [writers EXCEPT ![p].pc = "done"]
    /\ last' = [op |-> "update_node",
                args |-> Of("update_node", <<writers[p].node_id, writers[p].properties>>),
                outcome |-> "ok", ret |-> Of("update_node", None)]
    /\ prev' = G
    /\ UNCHANGED <<edges, now, bfs>>

ConcurrentNext == \E p \in Procs : UpdGetNode(p) \/ UpdWrite(p)

ConcurrentSpec == ConcurrentInit /\ [][ConcurrentNext]_vars

-----------------------------------------------------------------------------
(* A pull request that names an issue nobody created                       *)

\* issues 1 and 2 are created by their events or, issue 1, by a direct
\* add_node; the pull request names issues 1, 2 and 3
DanglingNext ==
    \/ \E a \in {x \in AddNodeInputs : x[1] = S_Issue} : AddNode(a[1], a[2], a[3])
    \/ \E n \in IssueNumbers, d \in QuietIssuePayloads : IssueCreated(n, d)
    \/ \E n \in PrNumbers, d \in ManyFixesPrPayloads : PrCreated(n, d)
    \/ \E n \in PrNumbers : PrMerged(n)

DanglingSpec == Init /\ [][DanglingNext]_vars

-----------------------------------------------------------------------------
(* The two write paths of nodes while the clock advances                   *)

\* the last second CURRENT_TIMESTAMP reaches
MaxNow == 2

\* a second passes between two calls
Tick ==
    /\ now < MaxNow
    /\ now' = now + 1
    /\ last' = [op |-> "tick", args |-> Of("tick", <<>>), outcome |-> "ok",
                ret |-> Of("tick", None)]
    /\ prev' = G
    /\ UNCHANGED <<nodes, edges, bfs, writers>>

ClockNext ==
    \/ Tick
    \/ \E a \in AddNodeInputs : AddNode(a[1], a[2], a[3])
    \/ \E a \in UpdateNodeInputs : UpdateNode(a[1], a[2])

ClockSpec == Init /\ [][ClockNext]_vars

-----------------------------------------------------------------------------
(* Events on a store that ingestion has written documents and concepts to  *)

\* add_node calls of ingestion: a document and a concept with a property
\* beside path and name
IngestedNodeInputs == {
    <<S_Document, S_docs_a_md, [path |-> S_docs_a_md, title |-> <<"A">>]>>,
    <<S_Concept, <<"F", "l", "o", "w", "s">>,
      [name |-> <<"F", "l", "o", "w", "s">>, summary |-> <<"x">>]>> }

\* add_edge calls of ingestion: edges touching that document and concept
IngestedEdgeInputs == {
    <<Id_Doc, Id_Skill, S_INCLUDES, [weight |-> 1]>>,
    <<Id_Skill, Id_Flows, S_INCLUDES, EmptyDict>> }

OverwriteNext ==
    \/ \E a \in IngestedNodeInputs : AddNode(a[1], a[2], a[3])
    \/ \E a \in IngestedEdgeInputs : AddEdge(a[1], a[2], a[3], a[4])
    \/ \E n \in IssueNumbers, d \in IssuePayloads \cup QuietIssuePayloads : IssueCreated(n, d)
    \/ \E n \in PrNumbers, d \in PrPayloads : PrCreated(n, d)

OverwriteSpec == Init /\ [][OverwriteNext]_vars

-----------------------------------------------------------------------------
(* find_dependents, one turn of its while loop at a time                   *)

\* the largest max_depth argument tried
MaxDepthArg == 3

\* node ids of the graphs tried
TraversalIds == {<<"A">>, <<"B">>, <<"C">>}
\* the node find_dependents starts from; the graphs cover every shape around it
TraversalSeeds == {<<"A">>}
S_rel == <<"r">>
S_rel2 == <<"q">>

\* the edge row add_edge(from_id, to_id, relationship) stores
EdgeRow(from_id, to_id, relationship) ==
    [from_id |-> from_id, to_id |-> to_id, relationship |-> relationship,
     properties |-> json_dumps(EmptyDict), created_at |-> 0]

\* the edges a graph may hold: every pair of ids, self-loops included, and a
\* second edge from A to B under another relationship
TraversalEdges ==
    {EdgeRow(a, b, S_rel) : a \in TraversalIds, b \in TraversalIds}
        \cup {EdgeRow(<<"A">>, <<"B">>, S_rel2)}

\* the chain A -> B -> C -> D -> E
ChainEdges ==
    {EdgeRow(<<"A">>, <<"B">>, S_rel), EdgeRow(<<"B">>, <<"C">>, S_rel),
     EdgeRow(<<"C">>, <<"D">>, S_rel), EdgeRow(<<"D">>, <<"E">>, S_rel)}

\* the edges tables tried: every graph over TraversalEdges, and the chain
TraversalGraphs == (SUBSET TraversalEdges) \cup {ChainEdges}

\* the arguments of the calls tried: max_depth given, or left to its default
TraversalCalls ==
    {<<node_id, max_depth>> : node_id \in TraversalSeeds, max_depth \in 0..MaxDepthArg}
        \cup {<<node_id>> : node_id \in TraversalSeeds}

\* the value of the max_depth parameter in a call with arguments args
max_depth_of(args) == IF Len(args) = 2 THEN args[2] ELSE DefaultMaxDepth

\* a find_dependents call is about to enter its loop on a store whose edges
\* table holds any of the graphs
TraversalInit ==
    /\ nodes = {}
    /\ edges \in TraversalGraphs
    /\ now = 0
    /\ \E args \in TraversalCalls :
          /\ bfs = [pc |-> "loop", node_id |-> args[1], max_depth |-> max_depth_of(args),
                    st |-> fd_start(args[1]), expanded |-> <<>>]
          /\ last = [op |-> "find_dependents",
                     args |-> Of("find_dependents", args),
                     outcome |-> "running", ret |-> None]
    /\ prev = [nodes |-> nodes, edges |-> edges]
    /\ writers = UpdIdle

\* one turn of the while loop; the cursor yields the rows in some order.
\* expanded lists the ids whose outgoing edges were fetched.
FdTurn ==
    /\ bfs.pc = "loop"
    /\ bfs.st.to_visit # <<>>
    /\ \E cursor \in Orders(OutCursor(G, Head(bfs.st.to_visit)[1])) :
          bfs' = [bfs EXCEPT
                    !.st = fd_turn(bfs.st, bfs.max_depth, cursor),
                    !.expanded = IF fd_skips(bfs.st, bfs.max_depth) THEN @
                                 ELSE Append(@, Head(bfs.st.to_visit)[1])]
    /\ UNCHANGED <<nodes, edges, now, last, prev, writers>>

\* the loop is left and dependents returned
FdReturn ==
    /\ bfs.pc = "loop"
    /\ bfs.st.to_visit = <<>>
    /\ bfs' = [bfs EXCEPT !.pc = "done"]
    /\ last' = [last EXCEPT !.outcome = "ok", !.ret = Of("find_dependents", bfs.st.dependents)]
    /\ UNCHANGED <<nodes, edges, now, prev, writers>>

TraversalNext == FdTurn \/ FdReturn

\* the call runs synchronously: a turn that can be taken is taken
TraversalSpec == TraversalInit /\ [][TraversalNext]_vars /\ WF_vars(TraversalNext)

-----------------------------------------------------------------------------
(* The read calls, on stores of any shape                                  *)

\* the node rows a store may hold: an issue, a pull request and a document
\* created in one second, and two issues created in the next
QueryNodeRows ==
    LET g1 == add_node(EmptyGraph, S_Issue, <<"1">>, [status |-> S_open], 0).g
        g2 == add_node(g1, S_PullRequest, <<"7">>, [status |-> S_open], 0).g
        g3 == add_node(g2, S_Document, S_docs_a_md, [path |-> S_docs_a_md], 0).g
        g4 == add_node(g3, S_Issue, <<"2">>, [status |-> S_open], 1).g
        g5 == add_node(g4, S_Issue, <<"3">>, [status |-> S_closed], 1).g
    IN  g5.nodes

\* the edge rows a store may hold: the issue and the pull request joined in
\* both directions under two relationships, a self-loop at the issue, and
\* the pull request joined to the document
QueryEdgeRows ==
    {EdgeRow(Id_Issue1, Id_Pr7, S_FIXED_BY),
     EdgeRow(Id_Pr7, Id_Issue1, S_ABOUT),
     EdgeRow(Id_Issue1, Id_Issue1, S_ABOUT),
     EdgeRow(Id_Pr7, Id_Doc, S_MODIFIES)}

\* the node_id and relationship arguments of find_related; <<>> is the
\* relationship left out
QueryIds == {Id_Issue1, Id_Pr7, Id_Doc}
QueryRelationships == {<<>>, S_FIXED_BY, S_ABOUT}

QueryInit ==
    /\ nodes \in SUBSET QueryNodeRows
    /\ edges \in SUBSET QueryEdgeRows
    /\ now = 0
    /\ last = [op |-> "init", args |-> Of("init", <<>>), outcome |-> "ok",
               ret |-> Of("init", None)]
    /\ prev = [nodes |-> nodes, edges |-> edges]
    /\ bfs = BfsIdle
    /\ writers = UpdIdle

\* find_related(node_id, relationship): the cursor lists the rows of the
\* join in some order
FindRelated(node_id, relationship) ==
    \E ret \in Orders(find_related(G, node_id, relationship)) :
        Called("find_related", <<node_id, relationship>>, G, "ok", ret)

\* query_by_type(node_type)
QueryByType(node_type) ==
    Called("query_by_type", <<node_type>>, G, "ok", query_by_type(G, node_type))

QueryNext ==
    \/ \E node_id \in QueryIds, relationship \in QueryRelationships :
          FindRelated(node_id, relationship)
    \/ \E node_type \in {S_Issue, S_PullRequest, S_Skill} : QueryByType(node_type)

QuerySpec == QueryInit /\ [][QueryNext]_vars

-----------------------------------------------------------------------------
(* Vocabulary of the properties                                            *)

NodeIds(tbl) == {r.id : r \in tbl}
Triple(e) == <<e.from_id, e.to_id, e.relationship>>
Triples(tbl) == {Triple(e) : e \in tbl}
RowsWithId(tbl, id) == {r \in tbl : r.id = id}
OtherRows(tbl, id) == {r \in tbl : r.id # id}

\* the last call was op and returned normally
Returned(op) == last.op = op /\ last.outcome = "ok"

\* the arguments of the last call and the value it returned
Args == last.args[last.op]
Ret == last.ret[last.op]

-----------------------------------------------------------------------------
(* C1  After add_node(t, l, p) has returned, the id returned is t, ":" and  *)
(* l joined, exactly one row of nodes has that id, and get_node of it      *)
(* gives type t and properties exactly p, whatever was stored under that   *)
(* id before.                                                              *)
C1_UpsertReplaces ==
    Returned("add_node") =>
        LET t == Args[1]
            l == Args[2]
            p == Args[3]
        IN  /\ Ret = t \o <<":">> \o l
            /\ Cardinality(RowsWithId(nodes, Ret)) = 1
            /\ get_node(G, Ret) # None
            /\ get_node(G, Ret).type = t
            /\ get_node(G, Ret).properties = p

\* an add_node over a node that held a key the new properties do not have
C1_Witness ==
    /\ Returned("add_node")
    /\ get_node(prev, Ret) # None
    /\ \E k \in DOMAIN get_node(prev, Ret).properties : k \notin DOMAIN Args[3]
    /\ DOMAIN get_node(G, Ret).properties = DOMAIN Args[3]

(* C2  update_node(id, partial) on an existing node lays partial over the  *)
(* old properties: every key of partial has the supplied value, every      *)
(* other old key keeps its value, there is no further key, id and type     *)
(* stay, and no other node and no edge changes.                            *)
C2_MergeOverlay ==
    Returned("update_node") =>
        LET id == Args[1]
            partial == Args[2]
            old == get_node(prev, id)
            new == get_node(G, id)
        IN  /\ old # None
            /\ new # None
            /\ Cardinality(RowsWithId(nodes, id)) = 1
            /\ DOMAIN new.properties = (DOMAIN old.properties) \cup (DOMAIN partial)
            /\ \A k \in DOMAIN partial : new.properties[k] = partial[k]
            /\ \A k \in (DOMAIN old.properties) \ (DOMAIN partial) :
                  new.properties[k] = old.properties[k]
            /\ new.id = old.id
            /\ new.type = old.type
            /\ OtherRows(nodes, id) = OtherRows(prev.nodes, id)
            /\ edges = prev.edges

\* an update_node that overwrote a key, added a key and kept a key, with
\* other nodes and edges in the store
C2_Witness ==
    /\ Returned("update_node")
    /\ LET id == Args[1]
           partial == Args[2]
           old == get_node(prev, id).properties
       IN  /\ \E k \in (DOMAIN partial) \cap (DOMAIN old) : old[k] # partial[k]
           /\ \E k \in DOMAIN partial : k \notin DOMAIN old
           /\ \E k \in DOMAIN old : k \notin DOMAIN partial
           /\ OtherRows(nodes, id) # {}
           /\ edges # {}

(* C3  update_node on an id that is not in the store raises the not-found  *)
(* error (ValueError) and leaves both tables as they were; on an id that   *)
(* is in the store it does not raise.                                      *)
C3_UpdateNotFound ==
    last.op = "update_node" =>
        /\ (last.outcome = "ValueError") <=> (get_node(prev, Args[1]) = None)
        /\ last.outcome = "ValueError" =>
              /\ nodes = prev.nodes
              /\ edges = prev.edges
              /\ get_node(G, Args[1]) = None

\* a refused update_node on a store that holds other nodes and edges
C3_Witness ==
    /\ last.op = "update_node"
    /\ last.outcome = "ValueError"
    /\ nodes # {}
    /\ edges # {}

(* C4  At most one edge row exists per (from_id, to_id, relationship), and  *)
(* add_edge of a triple that exists returns normally and changes nothing,  *)
(* the stored properties of the edge included.                             *)
C4_EdgeIdempotent ==
    /\ \A e1, e2 \in edges : Triple(e1) = Triple(e2) => e1 = e2
    /\ last.op = "add_edge" =>
          /\ last.outcome = "ok"
          /\ <<Args[1], Args[2], Args[3]>> \in Triples(edges)
          /\ <<Args[1], Args[2], Args[3]>> \in Triples(prev.edges) =>
                /\ edges = prev.edges
                /\ nodes = prev.nodes

\* an add_edge of an existing triple that supplied other properties than
\* the stored ones
C4_Witness ==
    /\ last.op = "add_edge"
    /\ \E e \in prev.edges :
          /\ Triple(e) = <<Args[1], Args[2], Args[3]>>
          /\ e.properties # json_dumps(Args[4])

(* C5  No call removes a node id or an edge triple: every id and every     *)
(* triple that was in the store when a call started is there when it       *)
(* ends; a status change rewrites properties of a row that stays.          *)
C5_AppendOnly ==
    /\ NodeIds(prev.nodes) \subseteq NodeIds(nodes)
    /\ Triples(prev.edges) \subseteq Triples(edges)

\* a status change by handle_issue_closed: the properties differ, the ids
\* and triples are the same
C5_Witness ==
    /\ Returned("handle_issue_closed")
    /\ nodes # prev.nodes
    /\ NodeIds(nodes) = NodeIds(prev.nodes)
    /\ Cardinality(nodes) > 1
    /\ edges # {}

-----------------------------------------------------------------------------
(* Lifecycles                                                              *)

S_absent == <<"absent">>
S_unset == <<"unset">>

\* the status of node id in store g: absent when there is no such node,
\* unset when the node has no status property
StatusOf(g, id) ==
    LET node == get_node(g, id)
    IN  IF node = None THEN S_absent
        ELSE IF "status" \in DOMAIN node.properties THEN node.properties["status"]
        ELSE S_unset

IssueId(n) == S_Issue \o <<":">> \o IntToStr(n)
PrId(n) == S_PullRequest \o <<":">> \o IntToStr(n)

(* C6  Under handler calls alone, the status of an Issue node changes only *)
(* from absent to open (by handle_issue_created) and from open to closed   *)
(* (by handle_issue_closed or handle_pr_merged); a closed issue is never   *)
(* open again.                                                             *)
C6_IssueLifecycle ==
    \A n \in IssueNumbers :
        LET before == StatusOf(prev, IssueId(n))
            after == StatusOf(G, IssueId(n))
        IN  \/ after = before
            \/ /\ before = S_absent
               /\ after = S_open
               /\ last.op = "handle_issue_created"
            \/ /\ before = S_open
               /\ after = S_closed
               /\ last.op \in {"handle_issue_closed", "handle_pr_merged"}

(* C7  Under handler calls alone, the status of a PullRequest node is open *)
(* or merged and changes only from absent to open (by handle_pr_created)   *)
(* and from open to merged (by handle_pr_merged); a merged pull request is *)
(* never open again.                                                       *)
C7_PrLifecycle ==
    \A n \in PrNumbers :
        LET before == StatusOf(prev, PrId(n))
            after == StatusOf(G, PrId(n))
        IN  /\ after \in {S_absent, S_open, S_merged}
            /\ \/ after = before
               \/ /\ before = S_absent
                  /\ after = S_open
                  /\ last.op = "handle_pr_created"
               \/ /\ before = S_open
                  /\ after = S_merged
                  /\ last.op = "handle_pr_merged"

-----------------------------------------------------------------------------
(* The merge cascade                                                       *)

\* node id a and node id b are the two ends of an edge of relationship rel
Joined(tbl, a, b, rel) ==
    \E e \in tbl : /\ e.relationship = rel
                   /\ \/ (e.from_id = a /\ e.to_id = b)
                      \/ (e.from_id = b /\ e.to_id = a)

(* C8  After handle_pr_merged(n) on an existing PullRequest:n, the pull     *)
(* request has status merged and every Issue node of the store that a      *)
(* FIXED_BY edge joins to PullRequest:n has status closed, however the     *)
(* Issue node was created and however many there are.                      *)
C8_MergeClosesLinked ==
    (last.op = "handle_pr_merged" /\ get_node(prev, PrId(Args[1])) # None) =>
        /\ StatusOf(G, PrId(Args[1])) = S_merged
        /\ \A r \in nodes :
              (r.type = S_Issue /\ Joined(edges, r.id, PrId(Args[1]), S_FIXED_BY))
                  => StatusOf(G, r.id) = S_closed

\* the Skill ids find_dependents reaches, with the default depth, from the
\* Document nodes that a MODIFIES edge joins to pr_id
DocumentImpact(g, pr_id) ==
    UNION {SkillIds(find_dependents(g, d.id, DefaultMaxDepth)) :
             d \in {r \in g.nodes : r.type = S_Document /\ Joined(g.edges, r.id, pr_id, S_MODIFIES)}}

(* C9  The impact set handle_pr_merged(n) reports is exactly the set of ids *)
(* prefixed "Skill:" that find_dependents reaches, with the default depth  *)
(* of 3, from some Document node that a MODIFIES edge joins to             *)
(* PullRequest:n.                                                          *)
C9_ImpactSet ==
    Returned("handle_pr_merged") =>
        Ret = DocumentImpact(G, PrId(Args[1]))

-----------------------------------------------------------------------------
(* Traversal                                                               *)

(* C10  find_dependents(node_id, max_depth) terminates on every graph and   *)
(* every max_depth >= 0, cycles and self-loops included: no node has its   *)
(* outgoing edges fetched twice, and the loop is left.                     *)
C10_Terminates ==
    /\ [](\A i, j \in DOMAIN bfs.expanded : bfs.expanded[i] = bfs.expanded[j] => i = j)
    /\ <>(bfs.pc = "done")

\* a call that returned on a graph with the cycle A -> B -> C -> A and a
\* self-loop at the seed A, with all three nodes expanded
C10_Witness ==
    /\ bfs.pc = "done"
    /\ bfs.node_id = <<"A">>
    /\ {<<<<"A">>, <<"A">>, S_rel>>, <<<<"A">>, <<"B">>, S_rel>>,
        <<<<"B">>, <<"C">>, S_rel>>, <<<<"C">>, <<"A">>, S_rel>>} \subseteq Triples(edges)
    /\ Len(bfs.expanded) = 3

(* C11  The list find_dependents returns holds each id at most once, on     *)
(* every graph, seed and max_depth.                                        *)
C11_NoDuplicates ==
    bfs.pc = "done" =>
        \A i, j \in DOMAIN bfs.st.dependents :
            bfs.st.dependents[i] = bfs.st.dependents[j] => i = j

\* the ids a forward path of 1 to k edges leads to from seed
RECURSIVE ForwardWithin(_, _, _)
ForwardWithin(tbl, seed, k) ==
    IF k = 0 THEN {}
    ELSE LET nearer == {seed} \cup ForwardWithin(tbl, seed, k - 1)
         IN  {e.to_id : e \in {x \in tbl : x.from_id \in nearer}}

(* C12  For max_depth >= 1 the ids find_dependents(seed, max_depth) returns *)
(* are exactly the ids other than seed that a forward path of 1 to         *)
(* max_depth edges reaches from seed; a call without max_depth uses 3.     *)
C12_DepthBound ==
    bfs.pc = "done" =>
        LET seed == Args[1]
            bound == IF Len(Args) = 2 THEN Args[2] ELSE 3
        IN  bound >= 1 => Range(Ret) = ForwardWithin(edges, seed, bound) \ {seed}

\* a call with max_depth 1 returned on the cycle A -> B -> C -> A: B is
\* returned; C, two edges away and with an edge into A, is not
C12_Witness ==
    /\ bfs.pc = "done"
    /\ Len(Args) = 2
    /\ Args[2] = 1
    /\ Triples(edges) = {<<<<"A">>, <<"B">>, S_rel>>, <<<<"B">>, <<"C">>, S_rel>>,
                         <<<<"C">>, <<"A">>, S_rel>>}
    /\ Ret = <<<<"B">>>>

-----------------------------------------------------------------------------
(* One-hop neighbours                                                      *)

\* the ids of the nodes of store g at the other end of an edge that has
\* node_id at one end, of the given relationship when there is one
Neighbours(g, node_id, relationship) ==
    {m \in NodeIds(g.nodes) :
        \E e \in g.edges :
            /\ (relationship # <<>> => e.relationship = relationship)
            /\ \/ (e.from_id = node_id /\ e.to_id = m)
               \/ (e.to_id = node_id /\ e.from_id = m)}

(* C13  find_related(n, r) returns exactly the nodes of the store at the    *)
(* other end of an edge at n (of relationship r when r is given); n itself *)
(* is returned only when an edge joins n to itself.                        *)
C13_OneHopNeighbours ==
    Returned("find_related") =>
        {Ret[i].id : i \in DOMAIN Ret} = Neighbours(G, Args[1], Args[2])

(* C14  find_related never returns two entries with the same node id.       *)
C14_RelatedNoDuplicates ==
    Returned("find_related") =>
        \A i, j \in DOMAIN Ret : Ret[i].id = Ret[j].id => i = j

-----------------------------------------------------------------------------
(* Events for entities that were never created                             *)

(* C15  handle_issue_closed(n) when Issue:n is absent and                   *)
(* handle_pr_merged(n) when PullRequest:n is absent raise the not-found    *)
(* error (ValueError), create no node and leave every node and every edge  *)
(* as it was.                                                              *)
C15_UnknownEntityFails ==
    /\ (last.op = "handle_issue_closed" /\ get_node(prev, IssueId(Args[1])) = None) =>
          /\ last.outcome = "ValueError"
          /\ nodes = prev.nodes
          /\ edges = prev.edges
    /\ (last.op = "handle_pr_merged" /\ get_node(prev, PrId(Args[1])) = None) =>
          /\ last.outcome = "ValueError"
          /\ nodes = prev.nodes
          /\ edges = prev.edges

\* a refused handle_pr_merged on a store where an open issue has a FIXED_BY
\* edge to the absent pull request
C15_Witness ==
    /\ last.op = "handle_pr_merged"
    /\ last.outcome = "ValueError"
    /\ get_node(G, PrId(Args[1])) = None
    /\ \E r \in nodes :
          /\ r.type = S_Issue
          /\ StatusOf(G, r.id) = S_open
          /\ Joined(edges, r.id, PrId(Args[1]), S_FIXED_BY)

-----------------------------------------------------------------------------
(* Node types                                                              *)

\* the node types add_node documents
NodeTypes == {S_Document, S_Concept, S_Skill, S_Issue, S_PullRequest}

(* C16  add_node with a type outside Document, Concept, Skill, Issue and    *)
(* PullRequest fails and stores nothing: every node of the store has one   *)
(* of the five types.                                                      *)
C16_TypesClosed ==
    /\ \A r \in nodes : r.type \in NodeTypes
    /\ (last.op = "add_node" /\ Args[1] \notin NodeTypes) =>
          /\ last.outcome # "ok"
          /\ nodes = prev.nodes

-----------------------------------------------------------------------------
(* What the two creation handlers write                                    *)

\* title + " " + body of a payload, body "" when there is none
TextOf(data) ==
    data["title"] \o <<" ">> \o (IF "body" \in DOMAIN data THEN data["body"] ELSE <<>>)

\* the concept ids whose keyword occurs in text, letter case aside
ConceptsNamed(text) ==
    {keywords[k][2] : k \in {x \in DOMAIN keywords :
                                Contains(Lower(keywords[x][1]), Lower(text))}}

\* the Document ids of the paths in the set paths
DocumentIds(paths) == {S_Document \o <<":">> \o f : f \in paths}

(* C17  handle_issue_created(n, payload), on a payload that has the title, *)
(* html_url and created_at it reads, returns normally and leaves           *)
(* Issue:n with status open, a Concept node and an ABOUT edge from Issue:n *)
(* for every concept whose keyword occurs in title + " " + body, a         *)
(* Document node and an ABOUT edge from Issue:n for every path matched     *)
(* there, and no other new node or edge; when nothing matches only the     *)
(* Issue node is written.                                                  *)
C17_IssueCreatedEffect ==
    (/\ last.op = "handle_issue_created"
     /\ {"title", "html_url", "created_at"} \subseteq DOMAIN Args[2]) =>
        LET issue_id == IssueId(Args[1])
            text == TextOf(Args[2])
            targets == ConceptsNamed(text) \cup DocumentIds(FilesIn(text))
        IN  /\ last.outcome = "ok"
            /\ StatusOf(G, issue_id) = S_open
            /\ NodeIds(nodes) = NodeIds(prev.nodes) \cup {issue_id} \cup targets
            /\ Triples(edges) =
                  Triples(prev.edges) \cup {<<issue_id, t, S_ABOUT>> : t \in targets}
            /\ \A t \in ConceptsNamed(text) : get_node(G, t).type = S_Concept
            /\ \A t \in DocumentIds(FilesIn(text)) : get_node(G, t).type = S_Document

\* an issue created from a text in capitals that names one concept and no
\* path, after an issue created from a text that named nothing
C17_Witness ==
    /\ Returned("handle_issue_created")
    /\ Args[2]["title"] = <<"F", "L", "O", "W">>
    /\ <<IssueId(Args[1]), Id_Flows, S_ABOUT>> \in Triples(edges) \ Triples(prev.edges)
    /\ Id_Doc \notin NodeIds(nodes)
    /\ \E r \in prev.nodes : /\ r.type = S_Issue
                              /\ \A e \in prev.edges : e.from_id # r.id

(* C18  handle_pr_created(p, payload) leaves PullRequest:p with status      *)
(* open, an edge Issue:i --FIXED_BY--> PullRequest:p for every i the text  *)
(* references as fixes, closes or resolves #i, whether or not Issue:i      *)
(* exists and without creating it, a Document node and a MODIFIES edge     *)
(* from PullRequest:p for every changed file, and no other new node or     *)
(* edge.                                                                   *)
C18_PrCreatedEffect ==
    Returned("handle_pr_created") =>
        LET pr_id == PrId(Args[1])
            referenced == Range(FindAllFixes(Lower(TextOf(Args[2])), 1))
            changed == IF "changed_files" \in DOMAIN Args[2]
                       THEN {x["filename"] : x \in Range(Args[2]["changed_files"])}
                       ELSE {}
        IN  /\ StatusOf(G, pr_id) = S_open
            /\ NodeIds(nodes) = NodeIds(prev.nodes) \cup {pr_id} \cup DocumentIds(changed)
            /\ Triples(edges) =
                  Triples(prev.edges)
                      \cup {<<S_Issue \o <<":">> \o i, pr_id, S_FIXED_BY>> : i \in referenced}
                      \cup {<<pr_id, d, S_MODIFIES>> : d \in DocumentIds(changed)}
            /\ \A d \in DocumentIds(changed) : get_node(G, d).type = S_Document

\* a pull request created from a text that fixes issue 1 and closes issue
\* 2 while Issue:1 exists and Issue:2 does not
C18_Witness ==
    /\ Returned("handle_pr_created")
    /\ get_node(G, Id_Issue1) # None
    /\ get_node(G, Id_Issue2) = None
    /\ {<<Id_Issue1, Id_Pr7, S_FIXED_BY>>, <<Id_Issue2, Id_Pr7, S_FIXED_BY>>}
          \subseteq Triples(edges) \ Triples(prev.edges)
    /\ <<Id_Pr7, Id_Doc, S_MODIFIES>> \in Triples(edges)

-----------------------------------------------------------------------------
(* Order of arrival                                                        *)

\* store g with the timestamps left out
Stripped(g) ==
    [nodes |-> {[id |-> r.id, type |-> r.type, properties |-> r.properties] : r \in g.nodes},
     edges |-> {[from_id |-> e.from_id, to_id |-> e.to_id,
                 relationship |-> e.relationship, properties |-> e.properties] :
                    e \in g.edges}]

\* the payload of payloads that node id of the store was created from
PayloadOf(payloads, id) ==
    CHOOSE d \in payloads : d["title"] = get_node(G, id).properties["title"]

\* the store after issue 1, issue 2 and then pull request 7 were created, in
\* that order, on an empty store
InOrderCreated(d1, d2, dp) ==
    LET g1 == handle_issue_created(EmptyGraph, 1, d1, 0).g
        g2 == handle_issue_created(g1, 2, d2, 0).g
    IN  handle_pr_created(g2, 7, dp, 0).g

\* every entity of the events exists
AllArrived ==
    /\ \A n \in IssueNumbers : get_node(G, IssueId(n)) # None
    /\ \A n \in PrNumbers : get_node(G, PrId(n)) # None

(* C19  Whatever the order in which the issues and the pull request were   *)
(* created, the store reached is the one reached when the issues come      *)
(* first, before the merge and after it, timestamps aside; after the merge *)
(* every issue i the pull request text fixes has status closed and the     *)
(* edge Issue:i --FIXED_BY--> PullRequest:p.                               *)
C19_EitherOrder ==
    AllArrived =>
        LET d1 == PayloadOf(IssuePayloads \cup QuietIssuePayloads, Id_Issue1)
            d2 == PayloadOf(IssuePayloads \cup QuietIssuePayloads, Id_Issue2)
            dp == PayloadOf(PrPayloads \cup QuietPrPayloads, Id_Pr7)
            created == InOrderCreated(d1, d2, dp)
            fixed == {n \in IssueNumbers :
                        IntToStr(n) \in Range(FindAllFixes(Lower(TextOf(dp)), 1))}
        IN  /\ last.op # "handle_pr_merged" => Stripped(G) = Stripped(created)
            /\ last.op = "handle_pr_merged" =>
                  /\ last.outcome = "ok"
                  /\ Stripped(G) \in {Stripped(r.g) : r \in handle_pr_merged(created, 7, 0)}
                  /\ \A n \in fixed :
                        /\ StatusOf(G, IssueId(n)) = S_closed
                        /\ <<IssueId(n), Id_Pr7, S_FIXED_BY>> \in Triples(edges)

\* issue 1 was created last, after the pull request that fixes it had left
\* the edge Issue:1 --FIXED_BY--> PullRequest:7 with no Issue:1 node
C19_Witness ==
    /\ Returned("handle_issue_created")
    /\ Args[1] = 1
    /\ AllArrived
    /\ get_node(prev, Id_Issue1) = None
    /\ <<Id_Issue1, Id_Pr7, S_FIXED_BY>> \in Triples(prev.edges)

(* C20  From a store where PullRequest:p exists and an open Issue:i has a   *)
(* FIXED_BY edge to it, the properties of Issue:i after handle_pr_merged(p) *)
(* are its properties after handle_issue_closed(i) on that store.          *)
C20_MergeLikeClose ==
    (last.op = "handle_pr_merged" /\ get_node(prev, PrId(Args[1])) # None) =>
        \A n \in IssueNumbers :
            (/\ StatusOf(prev, IssueId(n)) = S_open
             /\ <<IssueId(n), PrId(Args[1]), S_FIXED_BY>> \in Triples(prev.edges)) =>
                get_node(G, IssueId(n)).properties =
                    get_node(handle_issue_closed(prev, n, now).g, IssueId(n)).properties

-----------------------------------------------------------------------------
(* What the merge writes                                                   *)

\* dict d without its status key
WithoutStatus(d) == [k \in (DOMAIN d) \ {"status"} |-> d[k]]

(* C21  handle_pr_merged(n) adds no node and no edge and changes no node    *)
(* other than PullRequest:n and the Issue nodes that a FIXED_BY edge joins *)
(* to PullRequest:n; on those it changes only the status key.  No Skill,   *)
(* Document or Concept node changes.                                       *)
C21_MergeWritesStatuses ==
    last.op = "handle_pr_merged" =>
        /\ NodeIds(nodes) = NodeIds(prev.nodes)
        /\ edges = prev.edges
        /\ \A r \in prev.nodes :
              LET old == get_node(prev, r.id)
                  new == get_node(G, r.id)
              IN  /\ new.type = old.type
                  /\ WithoutStatus(new.properties) = WithoutStatus(old.properties)
                  /\ new.properties # old.properties =>
                        \/ r.id = PrId(Args[1])
                        \/ /\ r.type = S_Issue
                           /\ Joined(prev.edges, r.id, PrId(Args[1]), S_FIXED_BY)

\* a merge that closed an issue and reported a skill, on a store that holds
\* a Skill, a Document and a Concept node
C21_Witness ==
    /\ Returned("handle_pr_merged")
    /\ Ret # {}
    /\ \E n \in IssueNumbers : /\ StatusOf(prev, IssueId(n)) = S_open
                                /\ StatusOf(G, IssueId(n)) = S_closed
    /\ {S_Skill, S_Document, S_Concept} \subseteq {r.type : r \in nodes}

-----------------------------------------------------------------------------
(* Malformed events                                                        *)

(* C22  When handle_issue_created or handle_pr_created raises because the   *)
(* payload lacks a field it reads, the store is as it was before the call. *)
C22_NoPartialResult ==
    (/\ last.op \in {"handle_issue_created", "handle_pr_created"}
     /\ last.outcome = "KeyError") =>
        /\ nodes = prev.nodes
        /\ edges = prev.edges

-----------------------------------------------------------------------------
(* Edges whose ends are not in the store                                   *)

(* C23  add_edge(from_id, to_id, ...) returns normally whether or not nodes *)
(* with those ids exist, the edge is in the store afterwards, no node is   *)
(* created, and find_dependents from from_id follows the edge to to_id.    *)
C23_DanglingEdgeAccepted ==
    last.op = "add_edge" =>
        /\ last.outcome = "ok"
        /\ <<Args[1], Args[2], Args[3]>> \in Triples(edges)
        /\ nodes = prev.nodes
        /\ Args[1] # Args[2] =>
              Args[2] \in Range(find_dependents(G, Args[1], DefaultMaxDepth))

\* an add_edge of a new edge while neither of its ends is in nodes
C23_Witness ==
    /\ Returned("add_edge")
    /\ {Args[1], Args[2]} \cap NodeIds(nodes) = {}
    /\ <<Args[1], Args[2], Args[3]>> \notin Triples(prev.edges)
    /\ nodes # {}

-----------------------------------------------------------------------------
(* Listing by type                                                         *)

\* the list ret holds exactly the nodes of type node_type, each once
ListsType(ret, node_type) ==
    /\ {ret[i].id : i \in DOMAIN ret} = {r.id : r \in {x \in nodes : x.type = node_type}}
    /\ \A i, j \in DOMAIN ret : ret[i].id = ret[j].id => i = j
    /\ \A i \in DOMAIN ret : ret[i].type = node_type

(* C24 as stated  query_by_type(t) returns exactly the nodes of type t,     *)
(* each once, a node created earlier before a node created later.          *)
C24_OldestFirst ==
    Returned("query_by_type") =>
        /\ ListsType(Ret, Args[1])
        /\ \A i, j \in DOMAIN Ret : i < j => Ret[i].created_at <= Ret[j].created_at

(* C24 as amended  query_by_type(t) returns exactly the nodes of type t,    *)
(* each once, a node created later before a node created earlier, and a    *)
(* second call right after the first returns the same sequence.            *)
C24_NewestFirst ==
    /\ [](Returned("query_by_type") =>
            /\ ListsType(Ret, Args[1])
            /\ \A i, j \in DOMAIN Ret : i < j => Ret[i].created_at >= Ret[j].created_at)
    /\ [][(/\ last.op = "query_by_type"
           /\ last'.op = "query_by_type"
           /\ last'.args = last.args) => last'.ret = last.ret]_vars

\* a listing of three issues created in two different seconds, on a store
\* that holds nodes of other types
C24_Witness ==
    /\ Returned("query_by_type")
    /\ Len(Ret) = 3
    /\ Ret[1].created_at > Ret[3].created_at
    /\ \E r \in nodes : r.type # Args[1]

-----------------------------------------------------------------------------
(* max_depth = 0                                                           *)

(* C25 as stated  find_dependents(seed, 0) still expands the seed and       *)
(* returns the targets of the seed's outgoing edges.                       *)
C25_ZeroStillExpands ==
    (bfs.pc = "done" /\ Len(Args) = 2 /\ Args[2] = 0) =>
        Range(Ret) = {e.to_id : e \in {x \in edges : x.from_id = Args[1]}} \ {Args[1]}

(* C25 as amended  find_dependents(seed, 0) does not expand the seed: its   *)
(* depth 0 is compared against max_depth, no edge is fetched and the empty *)
(* list is returned.                                                       *)
C25_ZeroReturnsNothing ==
    (bfs.pc = "done" /\ Len(Args) = 2 /\ Args[2] = 0) =>
        /\ Ret = <<>>
        /\ bfs.expanded = <<>>

\* a call with max_depth 0 returned on a graph where the seed has edges to
\* two other nodes
C25_Witness ==
    /\ bfs.pc = "done"
    /\ Len(Args) = 2
    /\ Args[2] = 0
    /\ {<<Args[1], <<"B">>, S_rel>>, <<Args[1], <<"C">>, S_rel>>} \subseteq Triples(edges)
    /\ Ret = <<>>

-----------------------------------------------------------------------------
(* Two writers                                                             *)

(* C26  When two processes have each returned from update_node on the same  *)
(* existing node with different keys, the node holds both new values,      *)
(* however their reads and writes were interleaved.                        *)
C26_NoLostUpdate ==
    \A p, q \in Procs :
        (/\ p # q
         /\ writers[p].pc = "done"
         /\ writers[q].pc = "done"
         /\ writers[p].node_id = writers[q].node_id
         /\ DOMAIN writers[p].properties \cap DOMAIN writers[q].properties = {}) =>
            LET stored == get_node(G, writers[p].node_id).properties
            IN  /\ \A k \in DOMAIN writers[p].properties : stored[k] = writers[p].properties[k]
                /\ \A k \in DOMAIN writers[q].properties : stored[k] = writers[q].properties[k]

-----------------------------------------------------------------------------
(* Redelivery                                                              *)

(* C27  Running handle_issue_created or handle_pr_created once more with    *)
(* the payload it has just returned from leaves the same nodes, properties *)
(* and edges, timestamps aside: the second run adds no node and no edge.   *)
C27_RedeliveryIdempotent ==
    /\ Returned("handle_issue_created") =>
          LET again == handle_issue_created(G, Args[1], Args[2], now)
          IN  again.outcome = "ok" /\ Stripped(again.g) = Stripped(G)
    /\ Returned("handle_pr_created") =>
          LET again == handle_pr_created(G, Args[1], Args[2], now)
          IN  again.outcome = "ok" /\ Stripped(again.g) = Stripped(G)

\* handle_pr_created has run a second time on a pull request that has
\* FIXED_BY and MODIFIES edges, and the store is as the first run left it
C27_Witness ==
    /\ Returned("handle_pr_created")
    /\ Args[1] = 7
    /\ get_node(prev, Id_Pr7) = get_node(G, Id_Pr7)
    /\ Stripped(prev) = Stripped(G)
    /\ \E e \in edges : e.to_id = Id_Pr7 /\ e.relationship = S_FIXED_BY
    /\ \E e \in edges : e.from_id = Id_Pr7 /\ e.relationship = S_MODIFIES

-----------------------------------------------------------------------------
(* A FIXED_BY edge from an issue that is not there                         *)

\* the ids that have a FIXED_BY edge to pull request p and no node
Dangling(g, p) ==
    {e.from_id : e \in {x \in g.edges : x.to_id = PrId(p) /\ x.relationship = S_FIXED_BY}}
        \ {r.id : r \in g.nodes}

(* C28  handle_pr_merged(p) on an existing pull request that has a FIXED_BY *)
(* edge from an issue without a node raises no ValueError, sets the pull   *)
(* request to merged, closes the linked issues that exist and creates no   *)
(* node for the missing one; an issue created after the merge of its       *)
(* fixing pull request has status open.                                    *)
C28_DanglingFixSkipped ==
    /\ (/\ last.op = "handle_pr_merged"
        /\ get_node(prev, PrId(Args[1])) # None
        /\ Dangling(prev, Args[1]) # {}) =>
           /\ last.outcome # "ValueError"
           /\ StatusOf(G, PrId(Args[1])) = S_merged
           /\ \A r \in prev.nodes :
                 (/\ r.type = S_Issue
                  /\ <<r.id, PrId(Args[1]), S_FIXED_BY>> \in Triples(prev.edges)) =>
                     StatusOf(G, r.id) = S_closed
           /\ \A id \in Dangling(prev, Args[1]) : get_node(G, id) = None
    /\ (/\ Returned("handle_issue_created")
        /\ get_node(prev, IssueId(Args[1])) = None
        /\ \E p \in PrNumbers :
              /\ <<IssueId(Args[1]), PrId(p), S_FIXED_BY>> \in Triples(prev.edges)
              /\ StatusOf(prev, PrId(p)) = S_merged) =>
           StatusOf(G, IssueId(Args[1])) = S_open

-----------------------------------------------------------------------------
(* Timestamps                                                              *)

(* C29  Right after add_node the node's created_at and updated_at are both  *)
(* the time of that call, also when the id existed; update_node leaves     *)
(* created_at as it was and sets updated_at to the time of the call; and   *)
(* every node always has updated_at >= created_at.                         *)
C29_Timestamps ==
    /\ Returned("add_node") =>
          LET node == get_node(G, full_id(Args[1], Args[2]))
          IN  node.created_at = now /\ node.updated_at = now
    /\ Returned("update_node") =>
          LET node == get_node(G, Args[1])
          IN  /\ node.created_at = get_node(prev, Args[1]).created_at
              /\ node.updated_at = now
    /\ \A r \in nodes : r.updated_at >= r.created_at

\* add_node has replaced a node that was created earlier and updated since
C29_Witness ==
    /\ Returned("add_node")
    /\ get_node(prev, Ret) # None
    /\ get_node(prev, Ret).created_at < get_node(prev, Ret).updated_at
    /\ get_node(prev, Ret).updated_at < now
    /\ get_node(G, Ret).created_at = now

-----------------------------------------------------------------------------
(* Documents and concepts an event mentions                                *)

=============================================================================
